---- MODULE Spec2Model ----
(***************************************************************************)
(* GitHub auto code review: the webhook handler (fan-out of per-file       *)
(* review workflows, aggregation, report composition, GitHub sinks), the   *)
(* three-step review workflow and the regex static analyzer.               *)
(*                                                                         *)
(* Strings the code inspects character by character (file contents) are    *)
(* sequences of one-character strings; strings it only passes around are   *)
(* TLA+ strings.  A Markdown document is the sequence of the pieces the     *)
(* code appends to it, one record per `report +=`.                         *)
(***************************************************************************)
EXTENDS Integers, Sequences, FiniteSets, TLC

(***************************************************************************)
(* Bounds of the model.                                                    *)
(***************************************************************************)
\* Longest file list a repository scan returns in the full handler model.
MaxFiles == 3
\* Longest outcome list in the aggregation model (SpecReport).
MaxReportFiles == 12

\* Files per scan where the handler is followed to its end under fairness.
MaxFairFiles == 2

(***************************************************************************)
(* Character-level string helpers.                                         *)
(***************************************************************************)
Uppers ==
    <<"A", "B", "C", "D", "E", "F", "G", "H", "I", "J", "K", "L", "M",
      "N", "O", "P", "Q", "R", "S", "T", "U", "V", "W", "X", "Y", "Z">>

Lowers ==
    <<"a", "b", "c", "d", "e", "f", "g", "h", "i", "j", "k", "l", "m",
      "n", "o", "p", "q", "r", "s", "t", "u", "v", "w", "x", "y", "z">>

\* The /i flag: letters compare by their lower-case form.
Lower(c) ==
    IF \E i \in 1..Len(Uppers) : Uppers[i] = c
    THEN Lowers[CHOOSE i \in 1..Len(Uppers) : Uppers[i] = c]
    ELSE c

\* \s of a JavaScript regex, as far as a line without "\n" can hold it.
Whitespace == {" ", "\t", "\r"}

\* ['"]
Quotes == {"'", "\""}

\* The literal lit occurs in s starting at position p (exact case).
MatchAt(s, p, lit) ==
    /\ p >= 1
    /\ p + Len(lit) - 1 <= Len(s)
    /\ \A k \in 1..Len(lit) : s[p + k - 1] = lit[k]

\* The literal lit (lower case) occurs in s at position p, any letter case.
MatchAtCI(s, p, lit) ==
    /\ p >= 1
    /\ p + Len(lit) - 1 <= Len(s)
    /\ \A k \in 1..Len(lit) : Lower(s[p + k - 1]) = lit[k]

\* \s* from position p: the first position at or after p that holds no whitespace.
RECURSIVE SkipWs(_, _)
SkipWs(s, p) ==
    IF p <= Len(s) /\ s[p] \in Whitespace THEN SkipWs(s, p + 1) ELSE p

\* code.split('\n') from position p on: the text up to the next "\n", then the
\* split of what follows it; always at least one (possibly empty) line.
RECURSIVE SplitFrom(_, _)
SplitFrom(code, p) ==
    LET breaks == {q \in p..Len(code) : code[q] = "\n"} IN
    IF breaks = {} THEN <<SubSeq(code, p, Len(code))>>
    ELSE LET q == CHOOSE x \in breaks : \A y \in breaks : x <= y
         IN <<SubSeq(code, p, q - 1)>> \o SplitFrom(code, q + 1)

SplitLines(code) == SplitFrom(code, 1)

(***************************************************************************)
(* Static analyzer (src/tools/static-analyzer.ts).                         *)
(***************************************************************************)
ConsoleDot == <<"c", "o", "n", "s", "o", "l", "e", ".">>

ConsoleMethods ==
    { <<"l", "o", "g">>, <<"d", "e", "b", "u", "g">>, <<"i", "n", "f", "o">> }

SecretKeywords ==
    { <<"p", "a", "s", "s", "w", "o", "r", "d">>,
      <<"a", "p", "i", "k", "e", "y">>,
      <<"a", "p", "i", "_", "k", "e", "y">>,
      <<"a", "p", "i", "-", "k", "e", "y">>,
      <<"s", "e", "c", "r", "e", "t">>,
      <<"t", "o", "k", "e", "n">> }

\* Mutant of TestNoConsole: the regex carries the /i flag.
TestNoConsoleIgnoringCase(line) ==
    \E p \in 1..Len(line) : \E m \in ConsoleMethods :
        MatchAtCI(line, p, ConsoleDot \o m)

\* /console\.(log|debug|info)/.test(line): no /i flag.
TestNoConsole(line) ==
    \E p \in 1..Len(line) : \E m \in ConsoleMethods :
        MatchAt(line, p, ConsoleDot \o m)

\* Mutant of AssignsLiteralAt: [^'"]* in place of [^'"]+, an empty literal matches.
AssignsPossiblyEmptyLiteralAt(line, q) ==
    LET eq == SkipWs(line, q) IN
    /\ eq <= Len(line)
    /\ line[eq] = "="
    /\ LET open == SkipWs(line, eq + 1) IN
       /\ open <= Len(line)
       /\ line[open] \in Quotes
       /\ \E close \in (open + 1)..Len(line) :
            /\ line[close] \in Quotes
            /\ \A j \in (open + 1)..(close - 1) : line[j] \notin Quotes

\* From position q on: \s*=\s*['"][^'"]+['"]
AssignsLiteralAt(line, q) ==
    LET eq == SkipWs(line, q) IN
    /\ eq <= Len(line)
    /\ line[eq] = "="
    /\ LET open == SkipWs(line, eq + 1) IN
       /\ open <= Len(line)
       /\ line[open] \in Quotes
       /\ \E close \in (open + 2)..Len(line) :
            /\ line[close] \in Quotes
            /\ \A j \in (open + 1)..(close - 1) : line[j] \notin Quotes

\* /(password|api[_-]?key|secret|token)\s*=\s*['"][^'"]+['"]/i.test(line)
TestHardcodedSecret(line) ==
    \E p \in 1..Len(line) : \E kw \in SecretKeywords :
        /\ MatchAtCI(line, p, kw)
        /\ AssignsLiteralAt(line, p + Len(kw))

\* /\/\/\s*TODO/i.test(line)
TestTodoComment(line) ==
    \E p \in 1..Len(line) :
        /\ MatchAt(line, p, <<"/", "/">>)
        /\ MatchAtCI(line, SkipWs(line, p + 2), <<"t", "o", "d", "o">>)

\* Mutant of Finding: the line is reported by its 0-based index.
FindingZeroBased(idx, sev, msg, rule) ==
    [line |-> idx - 1, severity |-> sev, message |-> msg, rule |-> rule]

\* issues.push({line: idx + 1, ...}) for the line at 1-based position idx.
Finding(idx, sev, msg, rule) ==
    [line |-> idx, severity |-> sev, message |-> msg, rule |-> rule]

\* Mutant of LineIssues: the three ifs chained with else, so the first rule
\* that matches hides the others.
LineIssuesFirstMatch(line, idx) ==
    IF TestNoConsole(line)
    THEN <<Finding(idx, "warning", "Debug statement found", "no-console")>>
    ELSE IF TestHardcodedSecret(line)
    THEN <<Finding(idx, "error", "Hardcoded secret detected", "no-hardcoded-secrets")>>
    ELSE IF TestTodoComment(line)
    THEN <<Finding(idx, "info", "TODO comment found", "todo-comment")>>
    ELSE <<>>

\* The body of lines.forEach for the line at 1-based position idx.
LineIssues(line, idx) ==
    (IF TestNoConsole(line)
     THEN <<Finding(idx, "warning", "Debug statement found", "no-console")>>
     ELSE <<>>)
    \o
    (IF TestHardcodedSecret(line)
     THEN <<Finding(idx, "error", "Hardcoded secret detected", "no-hardcoded-secrets")>>
     ELSE <<>>)
    \o
    (IF TestTodoComment(line)
     THEN <<Finding(idx, "info", "TODO comment found", "todo-comment")>>
     ELSE <<>>)

RECURSIVE ScanLines(_, _)
ScanLines(lines, idx) ==
    IF idx > Len(lines) THEN <<>>
    ELSE LineIssues(lines[idx], idx) \o ScanLines(lines, idx + 1)

\* issues.filter(i => i.severity === sev).length
CountSeverity(issues, sev) ==
    Cardinality({k \in 1..Len(issues) : issues[k].severity = sev})

\* Mutant of staticAnalyzerTool: total is the sum of the two counts.
staticAnalyzerToolTotalOfCounts(code) ==
    LET issues == ScanLines(SplitLines(code), 1) IN
    [ issues  |-> issues,
      summary |-> [ total    |-> CountSeverity(issues, "error")
                                 + CountSeverity(issues, "warning"),
                    errors   |-> CountSeverity(issues, "error"),
                    warnings |-> CountSeverity(issues, "warning") ] ]

\* staticAnalyzerTool.execute({context: {code, fileName}})
staticAnalyzerTool(code) ==
    LET issues == ScanLines(SplitLines(code), 1) IN
    [ issues  |-> issues,
      summary |-> [ total    |-> Len(issues),
                    errors   |-> CountSeverity(issues, "error"),
                    warnings |-> CountSeverity(issues, "warning") ] ]

(***************************************************************************)
(* File contents the repository scan can return.  A file's content is      *)
(* carried in the state by its name; CodeText gives its characters.        *)
(***************************************************************************)
ContentNames == {"clean", "todo", "secret"}

CodeText(name) ==
    CASE name = "clean" ->
           <<"l", "e", "t", " ", "x", " ", "=", " ", "1">>
      [] name = "todo" ->
           <<"l", "e", "t", " ", "x", " ", "=", " ", "1", "\n",
             "/", "/", " ", "T", "O", "D", "O">>
      [] name = "secret" ->
           <<"c", "o", "n", "s", "o", "l", "e", ".", "l", "o", "g", "(", "1", ")", ";", " ",
             "T", "o", "k", "e", "n", " ", "=", " ", "\"", "a", "b", "c", "\"">>

\* The analyzer's result for each content, computed once.
AnalysisOf == [name \in ContentNames |-> staticAnalyzerTool(CodeText(name))]

(***************************************************************************)
(* JavaScript values that the code tests for truthiness.                   *)
(***************************************************************************)
JsUndefined == [type |-> "undefined"]

JsNull == [type |-> "null"]

JsString(s) == [type |-> "string", val |-> s]

JsNumber(n) == [type |-> "number", val |-> n]

\* !v in JavaScript.
Falsy(v) ==
    \/ v.type \in {"undefined", "null"}
    \/ (v.type = "string" /\ v.val = "")
    \/ (v.type = "number" /\ v.val = 0)

\* obj.field of a record that may lack the field (undefined in JavaScript).
Has(r, f) == f \in DOMAIN r

(***************************************************************************)
(* Review workflow (src/workflows/code-review-workflow.ts).  A step either *)
(* returns its output or throws an Error with a message.                   *)
(***************************************************************************)
Returned(v) == [threw |-> FALSE, value |-> v]

Threw(msg) == [threw |-> TRUE, message |-> msg]

\* What agent.generate(prompt) can do: resolve with a response whose text is
\* a string (possibly empty), null or undefined, or reject with an Error.
AiResponses ==
    { [rejects |-> FALSE, text |-> JsString("LGTM")],
      [rejects |-> FALSE, text |-> JsString("")],
      [rejects |-> FALSE, text |-> JsNull],
      [rejects |-> FALSE, text |-> JsUndefined],
      [rejects |-> TRUE, message |-> "AI request failed"] }

\* Mutant of staticAnalysisReturn: the step hands on the result without the code.
staticAnalysisReturnWithoutCode(inputData, result) ==
    Returned([ code         |-> <<>>,
               fileName     |-> inputData.fileName,
               staticResult |-> result ])

\* What staticAnalysisStep.execute returns once the analyzer gave `result`.
staticAnalysisReturn(inputData, result) ==
    Returned([ code         |-> inputData.code,
               fileName     |-> inputData.fileName,
               staticResult |-> result ])

\* staticAnalysisStep.execute: inputData = {code, fileName}, the code by name.
staticAnalysisStep(inputData) ==
    staticAnalysisReturn(inputData, AnalysisOf[inputData.code])

\* aiReviewStep.execute up to the call of agent.generate(prompt): the agent lookup.
aiReviewLookup(agentFound) ==
    IF agentFound THEN Returned("agent") ELSE Threw("Agent not found")

\* The prompt aiReviewStep builds: file name, code and the static result.
aiReviewPrompt(inputData) ==
    [ fileName |-> inputData.fileName,
      code     |-> inputData.code,
      total    |-> inputData.staticResult.summary.total,
      issues   |-> inputData.staticResult.issues ]

\* Mutant of aiReviewStep: a rejected generate() is swallowed into the fallback text.
aiReviewStepSwallowing(inputData, response) ==
    Returned([ fileName     |-> inputData.fileName,
               staticResult |-> inputData.staticResult,
               aiReview     |-> IF response.rejects \/ Falsy(response.text)
                                THEN "No review generated"
                                ELSE response.text.val ])

\* Mutant of aiReviewStep: `??` in place of `||`, an empty text is kept.
aiReviewStepNullish(inputData, response) ==
    IF response.rejects THEN Threw(response.message)
    ELSE Returned([ fileName     |-> inputData.fileName,
                    staticResult |-> inputData.staticResult,
                    aiReview     |-> IF response.text.type \in {"null", "undefined"}
                                     THEN "No review generated"
                                     ELSE response.text.val ])

\* aiReviewStep.execute after agent.generate settled with response.
aiReviewStep(inputData, response) ==
    IF response.rejects THEN Threw(response.message)
    ELSE Returned([ fileName     |-> inputData.fileName,
                    staticResult |-> inputData.staticResult,
                    aiReview     |-> IF Falsy(response.text)
                                     THEN "No review generated"
                                     ELSE response.text.val ])

\* Mutant of generateReportStep: the two metrics are taken from each other's
\* summary field.
generateReportStepSwappedMetrics(inputData) ==
    Returned([ fileName |-> inputData.fileName,
               report   |-> [ heading  |-> inputData.fileName,
                              total    |-> inputData.staticResult.summary.total,
                              errors   |-> inputData.staticResult.summary.errors,
                              warnings |-> inputData.staticResult.summary.warnings,
                              findings |-> inputData.staticResult.issues,
                              aiReview |-> inputData.aiReview ],
               metrics  |-> [ staticIssues |-> inputData.staticResult.summary.errors,
                              staticErrors |-> inputData.staticResult.summary.total ] ])

\* generateReportStep.execute: the per-file Markdown report and the metrics.
generateReportStep(inputData) ==
    Returned([ fileName |-> inputData.fileName,
               report   |-> [ heading  |-> inputData.fileName,
                              total    |-> inputData.staticResult.summary.total,
                              errors   |-> inputData.staticResult.summary.errors,
                              warnings |-> inputData.staticResult.summary.warnings,
                              findings |-> inputData.staticResult.issues,
                              aiReview |-> inputData.aiReview ],
               metrics  |-> [ staticIssues |-> inputData.staticResult.summary.total,
                              staticErrors |-> inputData.staticResult.summary.errors ] ])

\* The result object of a workflow run whose last executed step ended as `last`:
\* a throwing step fails the run, otherwise the run succeeds with the last output.
WorkflowResult(last) ==
    IF last.threw
    THEN [status |-> "failed", error |-> [message |-> last.message]]
    ELSE [status |-> "success", result |-> last.value]

\* codeReviewWorkflow from the AI step on, given what agent.generate did:
\* .then(aiReviewStep).then(generateReportStep); a throwing step ends the run.
ResumeWorkflow(stepData, aiResponse) ==
    LET b == aiReviewStep(stepData, aiResponse) IN
    IF b.threw THEN b ELSE generateReportStep(b.value)

(***************************************************************************)
(* Webhook handler: the per-file callback of the fan-out.                  *)
(***************************************************************************)
\* {success: true, fileName: file.path, ...output}: the spread overrides.
SpreadSuccess(file, output) ==
    [k \in {"success", "fileName"} \cup DOMAIN output |->
        IF k \in DOMAIN output THEN output[k]
        ELSE IF k = "success" THEN TRUE
        ELSE file.path]

\* The try block of the callback, given the result start() resolved with.
OutcomeOfResult(file, result) ==
    IF result.status = "success"
    THEN SpreadSuccess(file, result.result)
    ELSE [ success  |-> FALSE,
           fileName |-> file.path,
           error    |-> IF result.status = "failed"
                        THEN result.error.message
                        ELSE "Workflow execution failed" ]

\* The catch block of the callback, given the Error start() rejected with.
OutcomeOfRejection(file, error) ==
    [success |-> FALSE, fileName |-> file.path, error |-> error.message]

(***************************************************************************)
(* Webhook handler: aggregation of the outcomes (step 7).                  *)
(***************************************************************************)
\* r.metrics?.staticIssues: undefined behaves as 0 under `|| 0` and under `> 0`.
StaticIssuesOf(r) == IF Has(r, "metrics") THEN r.metrics.staticIssues ELSE 0

\* r.metrics?.staticErrors, likewise.
StaticErrorsOf(r) == IF Has(r, "metrics") THEN r.metrics.staticErrors ELSE 0

\* results.filter((r) => r.success): an entry without the field is left out.
SuccessResults(rs) == SelectSeq(rs, LAMBDA r : Has(r, "success") /\ r.success)

\* successResults.reduce((sum, r) => sum + (r.metrics?.staticIssues || 0), 0)
RECURSIVE SumIssues(_)
SumIssues(rs) ==
    IF rs = <<>> THEN 0 ELSE StaticIssuesOf(Head(rs)) + SumIssues(Tail(rs))

\* successResults.reduce((sum, r) => sum + (r.metrics?.staticErrors || 0), 0)
RECURSIVE SumErrors(_)
SumErrors(rs) ==
    IF rs = <<>> THEN 0 ELSE StaticErrorsOf(Head(rs)) + SumErrors(Tail(rs))

TotalIssues(rs) == SumIssues(SuccessResults(rs))

\* Mutant of TotalErrors: the reduce copied from totalIssues, field unchanged.
TotalErrorsFromIssues(rs) == SumIssues(SuccessResults(rs))

TotalErrors(rs) == SumErrors(SuccessResults(rs))

\* .map((r) => ({ fileName: r.fileName, errors: r.metrics.staticErrors }))
RECURSIVE MapCritical(_)
MapCritical(rs) ==
    IF rs = <<>> THEN <<>>
    ELSE <<[fileName |-> Head(rs).fileName, errors |-> Head(rs).metrics.staticErrors]>>
         \o MapCritical(Tail(rs))

\* Mutant of CriticalFiles: the filter tests staticIssues instead of staticErrors.
CriticalFilesByIssues(rs) ==
    MapCritical(SelectSeq(SuccessResults(rs), LAMBDA r : StaticIssuesOf(r) > 0))

\* successResults.filter((r) => r.metrics?.staticErrors > 0).map(...)
CriticalFiles(rs) ==
    MapCritical(SelectSeq(SuccessResults(rs), LAMBDA r : StaticErrorsOf(r) > 0))

(***************************************************************************)
(* generateReportMarkdown: the document as the sequence of its pieces.     *)
(***************************************************************************)
\* .slice(0, 10) of the files shown in detail.
TopFilesLimit == 10

\* .slice(0, 5) of the findings shown per file.
FindingsLimit == 5

\* arr.slice(0, n)
SliceTo(arr, n) == SubSeq(arr, 1, IF Len(arr) < n THEN Len(arr) ELSE n)

\* results.filter((r) => r.metrics?.staticIssues > 0)
WithIssues(rs) == SelectSeq(rs, LAMBDA r : StaticIssuesOf(r) > 0)

Emoji(severity) ==
    IF severity = "error" THEN "red"
    ELSE IF severity = "warning" THEN "yellow"
    ELSE "info"

RECURSIVE PriorityBullets(_)
PriorityBullets(cf) ==
    IF cf = <<>> THEN <<>>
    ELSE <<[kind |-> "priority-bullet", fileName |-> Head(cf).fileName, errors |-> Head(cf).errors]>>
         \o PriorityBullets(Tail(cf))

RECURSIVE FindingLines(_)
FindingLines(issues) ==
    IF issues = <<>> THEN <<>>
    ELSE <<[ kind    |-> "finding",
             emoji   |-> Emoji(Head(issues).severity),
             line    |-> Head(issues).line,
             message |-> Head(issues).message,
             rule    |-> Head(issues).rule ]>>
         \o FindingLines(Tail(issues))

\* r.staticResult?.issues?.length > 0 and the block it guards.
FindingsOfFile(r) ==
    IF Has(r, "staticResult") /\ Has(r.staticResult, "issues")
       /\ Len(r.staticResult.issues) > 0
    THEN FindingLines(SliceTo(r.staticResult.issues, FindingsLimit))
         \o (IF Len(r.staticResult.issues) > FindingsLimit
             THEN <<[ kind  |-> "findings-omitted",
                      count |-> Len(r.staticResult.issues) - FindingsLimit ]>>
             ELSE <<>>)
    ELSE <<>>

\* The body of topFiles.forEach.
RECURSIVE FileBlocks(_)
FileBlocks(top) ==
    IF top = <<>> THEN <<>>
    ELSE <<[ kind         |-> "file-block",
             fileName     |-> Head(top).fileName,
             staticIssues |-> Head(top).metrics.staticIssues,
             staticErrors |-> Head(top).metrics.staticErrors ]>>
         \o FindingsOfFile(Head(top))
         \o FileBlocks(Tail(top))

\* Title and metadata; now is what new Date() reads inside the function.
HeaderSection(data, now) ==
    <<[ kind |-> "title" ],
      [ kind       |-> "metadata",
        repository |-> data.repository,
        branch     |-> data.branch,
        eventType  |-> data.eventType,
        time       |-> now ]>>

\* The summary table.
SummarySection(data) ==
    <<[ kind          |-> "summary",
        totalFiles    |-> data.totalFiles,
        totalIssues   |-> data.totalIssues,
        totalErrors   |-> data.totalErrors,
        criticalFiles |-> Len(data.criticalFiles) ]>>

\* Mutant of PrioritySection: the section is guarded by totalIssues.
PrioritySectionOnIssues(data) ==
    IF data.totalIssues > 0
    THEN <<[kind |-> "priority-heading"]>> \o PriorityBullets(data.criticalFiles)
    ELSE <<>>

\* if (totalErrors > 0) { heading; one bullet per criticalFiles entry }
PrioritySection(data) ==
    IF data.totalErrors > 0
    THEN <<[kind |-> "priority-heading"]>> \o PriorityBullets(data.criticalFiles)
    ELSE <<>>

\* Mutant of DetailSection: the list of files is not cut to the first ten.
DetailSectionUncut(data) ==
    IF data.totalIssues > 0
    THEN <<[kind |-> "detail-heading"]>>
         \o FileBlocks(WithIssues(data.results))
         \o (IF Len(WithIssues(data.results)) > TopFilesLimit
             THEN <<[ kind  |-> "files-omitted",
                      count |-> Len(WithIssues(data.results)) - TopFilesLimit ]>>
             ELSE <<>>)
    ELSE <<[kind |-> "no-issues"]>>

\* Mutant of DetailSection: the else branch is missing.
DetailSectionWithoutElse(data) ==
    IF data.totalIssues > 0
    THEN <<[kind |-> "detail-heading"]>>
         \o FileBlocks(SliceTo(WithIssues(data.results), TopFilesLimit))
         \o (IF Len(WithIssues(data.results)) > TopFilesLimit
             THEN <<[ kind  |-> "files-omitted",
                      count |-> Len(WithIssues(data.results)) - TopFilesLimit ]>>
             ELSE <<>>)
    ELSE <<>>

\* if (totalIssues > 0) { heading; top files; omission note } else { no issues }
DetailSection(data) ==
    IF data.totalIssues > 0
    THEN <<[kind |-> "detail-heading"]>>
         \o FileBlocks(SliceTo(WithIssues(data.results), TopFilesLimit))
         \o (IF Len(WithIssues(data.results)) > TopFilesLimit
             THEN <<[ kind  |-> "files-omitted",
                      count |-> Len(WithIssues(data.results)) - TopFilesLimit ]>>
             ELSE <<>>)
    ELSE <<[kind |-> "no-issues"]>>

FooterSection == <<[kind |-> "footer"]>>

\* generateReportMarkdown(data)
generateReportMarkdown(data, now) ==
    HeaderSection(data, now)
    \o SummarySection(data)
    \o PrioritySection(data)
    \o DetailSection(data)
    \o FooterSection

(***************************************************************************)
(* GitHub sinks: the request each helper sends.                            *)
(***************************************************************************)
\* createGitHubIssue({owner, repo, title, body, githubToken}): the POST it sends.
createGitHubIssue(owner, repo, title, body, githubToken) ==
    [ sink          |-> "issue",
      url           |-> [owner |-> owner, repo |-> repo],
      authorization |-> githubToken,
      title         |-> title,
      body          |-> body,
      labels        |-> <<"code-review", "automated">> ]

\* createPullRequestComment({owner, repo, pullNumber, body, githubToken}).
createPullRequestComment(owner, repo, pullNumber, body, githubToken) ==
    [ sink          |-> "comment",
      url           |-> [owner |-> owner, repo |-> repo, pullNumber |-> pullNumber],
      authorization |-> githubToken,
      body          |-> body ]

\* The issue title: the branch and totalErrors embedded in the fixed text.
IssueTitle(branch, totalErrors) == [branch |-> branch, errors |-> totalErrors]

(***************************************************************************)
(* State of one webhook request.                                           *)
(***************************************************************************)
VARIABLES
    pc,           \* where the handler is: "idle", "scan", "fanout", "sink", "done"
    env,          \* the deployment: GITHUB_TOKEN, whether the agent and the
                  \* workflow are registered
    req,          \* what the handler extracted from the request
    files,        \* scanResult.files
    run,          \* per file: the workflow run awaiting agent.generate, or settled
    promise,      \* per file: the callback's promise, pending or its outcome
    outOfOrder,   \* whether some callback settled before that of an earlier file
    results,      \* what Promise.all resolved with
    review,       \* the data handed to generateReportMarkdown
    report,       \* reportMarkdown
    sinks,        \* the GitHub write requests sent so far
    response,     \* the HTTP response, once returned
    signal        \* an AbortSignal under the polyfill (null while none is studied)

vars ==
    <<pc, env, req, files, run, promise, outOfOrder, results, review, report,
      sinks, response, signal>>

\* A callback's promise: pending, rejected with a reason, or fulfilled, and then
\* the promise is written as the outcome it is fulfilled with.
Pending == [state |-> "pending"]

Rejected(error) == [state |-> "rejected", reason |-> error]

IsRejected(p) == Has(p, "state") /\ p.state = "rejected"

IsFulfilled(p) == ~Has(p, "state")

Settled == [state |-> "settled"]

\* What new Date().toISOString() can read while a request is handled.
Times == {"2026-01-01T00:00:00.000Z", "2026-01-01T00:00:01.000Z"}

\* repository?.split('/') of the full names a payload can carry.
SplitRepository(fullName) ==
    IF Falsy(fullName) THEN [owner |-> JsUndefined, repo |-> JsUndefined]
    ELSE IF fullName.val = "octo/repo"
    THEN [owner |-> JsString("octo"), repo |-> JsString("repo")]
    ELSE [owner |-> fullName, repo |-> JsUndefined]

FullNames == {JsUndefined, JsString("octo"), JsString("octo/repo")}

EventHeaders ==
    {JsUndefined, JsString("push"), JsString("pull_request"), JsString("ping")}

\* payload.ref with 'refs/heads/' removed, or payload.pull_request?.head?.ref.
BranchRefs == {JsUndefined, JsString("dev")}

\* payload.pull_request?.number
PullNumbers == {JsUndefined, JsNumber(7)}

Tokens == {JsUndefined, JsString("ghp_token")}

\* The path of the i-th entry of the repository tree: paths are distinct.
PathOf(i) == "f" \o ToString(i) \o ".ts"

Json(status, body) == [status |-> status, body |-> body]

\* Mutant of CatchResponse: the text of the error is sent under `message`.
CatchResponseAsMessage(message) ==
    Json(500, [ success |-> FALSE,
                message |-> IF message = "" THEN "Internal server error" ELSE message ])

\* The handler's catch block: the response for a thrown error.
CatchResponse(message) ==
    Json(500, [ success |-> FALSE,
                error   |-> IF message = "" THEN "Internal server error" ELSE message ])

Init ==
    /\ pc = "idle"
    /\ env \in [ GITHUB_TOKEN       : Tokens,
                 agentRegistered    : BOOLEAN,
                 workflowRegistered : BOOLEAN ]
    /\ req = JsNull
    /\ files = <<>>
    /\ run = <<>>
    /\ promise = <<>>
    /\ outOfOrder = FALSE
    /\ results = <<>>
    /\ review = JsNull
    /\ report = <<>>
    /\ sinks = <<>>
    /\ response = JsNull
    /\ signal = JsNull

(***************************************************************************)
(* Steps 1 to 5: from the request to the call of the repository scanner.   *)
(***************************************************************************)
\* The handler returns `resp` before scanning anything.
ReturnEarly(resp) ==
    /\ pc' = "done"
    /\ response' = resp
    /\ UNCHANGED <<env, req, files, run, promise, outOfOrder, results, review,
                   report, sinks, signal>>

Receive ==
    /\ pc = "idle"
    /\ \E header \in EventHeaders, bodyIsJson \in BOOLEAN, fullName \in FullNames,
          ref \in BranchRefs, number \in PullNumbers :
         LET parts  == SplitRepository(fullName)
             branch == IF Falsy(ref) THEN "main" ELSE ref.val
             pull   == IF header = JsString("pull_request") THEN number ELSE JsNull
         IN
         IF Falsy(header) \/ header.val \notin {"push", "pull_request"}
         THEN ReturnEarly(Json(200, [success |-> FALSE, message |-> "Event type is not supported"]))
         ELSE IF ~bodyIsJson
         THEN ReturnEarly(CatchResponse("Unexpected token in JSON"))
         ELSE IF Falsy(parts.owner) \/ Falsy(parts.repo)
         THEN ReturnEarly(Json(400, [success |-> FALSE,
                  error |-> "Invalid webhook payload: missing repository information"]))
         ELSE IF Falsy(env.GITHUB_TOKEN)
         THEN ReturnEarly(Json(500, [success |-> FALSE,
                  error |-> "GITHUB_TOKEN environment variable is required"]))
         ELSE /\ pc' = "scan"
              /\ req' = [ eventType         |-> header.val,
                          owner             |-> parts.owner.val,
                          repo              |-> parts.repo.val,
                          branch            |-> branch,
                          pullRequestNumber |-> pull,
                          githubToken       |-> env.GITHUB_TOKEN.val ]
              /\ UNCHANGED <<env, files, run, promise, outOfOrder, results,
                             review, report, sinks, response, signal>>

(***************************************************************************)
(* Step 5: the scanner rejects, and the handler's catch block answers.     *)
(***************************************************************************)
\* How the request for the repository tree fails: GitHub answers with a
\* response that is not ok, or fetch itself rejects.
TreeFailures ==
    { [responded |-> TRUE, status |-> "401", statusText |-> "Unauthorized"],
      [responded |-> TRUE, status |-> "404", statusText |-> "Not Found"],
      [responded |-> FALSE, message |-> "fetch failed"] }

\* The message of the error getTree ends with.
getTreeError(failure, githubToken) ==
    IF failure.responded
    THEN "Failed to fetch repository tree: " \o failure.status \o " false "
            \o failure.statusText \o " " \o githubToken
    ELSE failure.message

\* The scanner's catch block wraps the message and throws again.
scannerError(message) == "GitHub scanner error: " \o message

ScanRejects ==
    /\ pc = "scan"
    /\ pc' = "done"
    /\ \E failure \in TreeFailures :
         response' = CatchResponse(scannerError(getTreeError(failure, req.githubToken)))
    /\ UNCHANGED <<env, req, files, run, promise, outOfOrder, results, review,
                   report, sinks, signal>>

(***************************************************************************)
(* Step 6: the scanner resolves and the workflow is looked up: without it  *)
(* the handler answers at once.  scanResult.files.map starts one callback  *)
(* per file, and each runs until its first wait on the network: the static *)
(* analysis step, then the agent lookup and the call of agent.generate.    *)
(***************************************************************************)
\* How a failed run reaches the callback: start() resolves with a failed
\* result, or start() rejects.
Surfacings == {"result", "rejection"}

\* Mutant of CallbackOutcome: no catch block, so a rejected start() rejects the
\* callback's promise.
CallbackWithoutCatch(file, last, surfaced) ==
    IF last.threw /\ surfaced = "rejection"
    THEN Rejected([message |-> last.message])
    ELSE OutcomeOfResult(file, WorkflowResult(last))

\* What the callback's promise settles with, for a run whose last executed step
\* ended as `last`: the try block's value, or the catch block's.
CallbackOutcome(file, last, surfaced) ==
    IF last.threw /\ surfaced = "rejection"
    THEN OutcomeOfRejection(file, [message |-> last.message])
    ELSE OutcomeOfResult(file, WorkflowResult(last))

\* The run of one file up to its wait on agent.generate.
StartRun(file, agentFound) ==
    LET a      == staticAnalysisStep([code |-> file.content, fileName |-> file.path])
        lookup == aiReviewLookup(agentFound)
    IN
    IF lookup.threw
    THEN [state |-> "settled", last |-> lookup]
    ELSE [state |-> "ai", data |-> a.value, prompt |-> aiReviewPrompt(a.value)]

ScanResolvesUpTo(maxFiles) ==
    /\ pc = "scan"
    /\ \E n \in 0..maxFiles : \E contents \in [1..n -> ContentNames] :
       \E surfaced \in Surfacings :
         LET fs == [i \in 1..n |->
                      [path |-> PathOf(i), content |-> contents[i], size |-> 1]]
             started == [i \in 1..n |-> StartRun(fs[i], env.agentRegistered)]
         IN
         /\ files' = fs
         /\ IF ~env.workflowRegistered
            THEN /\ pc' = "done"
                 /\ response' = Json(500, [ success |-> FALSE,
                                            error   |-> "Workflow not found" ])
                 /\ UNCHANGED <<run, promise, outOfOrder>>
            ELSE /\ run' = [i \in 1..n |->
                              IF started[i].state = "settled" THEN Settled
                              ELSE started[i]]
                 /\ promise' = [i \in 1..n |->
                                  IF started[i].state = "settled"
                                  THEN CallbackOutcome(fs[i], started[i].last, surfaced)
                                  ELSE Pending]
                 /\ outOfOrder' = FALSE
                 /\ pc' = "fanout"
                 /\ response' = response
    /\ UNCHANGED <<env, req, results, review, report, sinks, signal>>

\* The scanner resolves with at most MaxFiles files.
ScanResolves == ScanResolvesUpTo(MaxFiles)

(***************************************************************************)
(* One file's agent.generate settles: the rest of its workflow run and of  *)
(* its callback.                                                           *)
(***************************************************************************)
AiSettlesWith(i, aiResponse, surfaced) ==
    /\ pc = "fanout"
    /\ i \in 1..Len(files)
    /\ run[i].state = "ai"
    /\ promise' = [promise EXCEPT ![i] =
                      CallbackOutcome(files[i], ResumeWorkflow(run[i].data, aiResponse),
                                      surfaced)]
    /\ run' = [run EXCEPT ![i] = Settled]
    /\ outOfOrder' = (outOfOrder \/ \E j \in 1..(i - 1) : promise[j] = Pending)
    /\ UNCHANGED <<pc, env, req, files, results, review, report, sinks, response, signal>>

AiSettles(i) ==
    \E aiResponse \in AiResponses, surfaced \in Surfacings :
        AiSettlesWith(i, aiResponse, surfaced)

(***************************************************************************)
(* Steps 7 to 10: Promise.all resolves, the handler aggregates, composes   *)
(* the report and sends the GitHub write, all without waiting in between.  *)
(***************************************************************************)
\* Mutant of AllFulfilled: the handler goes on at the first fulfilled promise.
AnyFulfilled(ps) == ps = <<>> \/ \E i \in 1..Len(ps) : IsFulfilled(ps[i])

\* Mutant of AllFulfilled: the promise of the last callback is not awaited.
AllButLastFulfilled(ps) == \A i \in 1..(Len(ps) - 1) : IsFulfilled(ps[i])

\* await Promise.all(...) continues once every callback's promise is fulfilled,
AllFulfilled(ps) == \A i \in 1..Len(ps) : IsFulfilled(ps[i])

\* and throws as soon as one of them is rejected.
AnyRejected(ps) == \E i \in 1..Len(ps) : IsRejected(ps[i])

\* Mutant of PromiseAll: failed outcomes are dropped from the array.
PromiseAllSkippingFailures(ps) ==
    SelectSeq(ps, LAMBDA p : Has(p, "success") /\ p.success)

\* The array Promise.all resolves with: the i-th promise's value at position i.
PromiseAll(ps) == [i \in 1..Len(ps) |-> ps[i]]

\* Mutant of Aggregate: the files counted are the files reviewed successfully.
AggregateCountingSuccesses(rq, totalFiles, rs) ==
    [ repository    |-> rq.owner \o "/" \o rq.repo,
      branch        |-> rq.branch,
      eventType     |-> rq.eventType,
      totalFiles    |-> Len(SuccessResults(rs)),
      totalIssues   |-> TotalIssues(rs),
      totalErrors   |-> TotalErrors(rs),
      criticalFiles |-> CriticalFiles(rs),
      results       |-> SuccessResults(rs) ]

\* The argument of generateReportMarkdown, built from results (steps 7 and 8).
Aggregate(rq, totalFiles, rs) ==
    [ repository    |-> rq.owner \o "/" \o rq.repo,
      branch        |-> rq.branch,
      eventType     |-> rq.eventType,
      totalFiles    |-> totalFiles,
      totalIssues   |-> TotalIssues(rs),
      totalErrors   |-> TotalErrors(rs),
      criticalFiles |-> CriticalFiles(rs),
      results       |-> SuccessResults(rs) ]

\* Mutant of SinkCalls: the issue is created only when errors were found.
SinkCallsOnErrors(rq, data, body) ==
    IF rq.eventType = "push"
    THEN IF data.totalErrors > 0
         THEN <<createGitHubIssue(rq.owner, rq.repo,
                                  IssueTitle(rq.branch, data.totalErrors),
                                  body, rq.githubToken)>>
         ELSE <<>>
    ELSE IF rq.eventType = "pull_request" /\ ~Falsy(rq.pullRequestNumber)
    THEN <<createPullRequestComment(rq.owner, rq.repo, rq.pullRequestNumber.val,
                                    body, rq.githubToken)>>
    ELSE <<>>

\* Mutant of SinkCalls: the comment, like the issue, needs totalIssues > 0.
SinkCallsCommentOnIssues(rq, data, body) ==
    IF data.totalIssues = 0 THEN <<>>
    ELSE IF rq.eventType = "push"
    THEN <<createGitHubIssue(rq.owner, rq.repo,
                             IssueTitle(rq.branch, data.totalErrors),
                             body, rq.githubToken)>>
    ELSE IF rq.eventType = "pull_request" /\ ~Falsy(rq.pullRequestNumber)
    THEN <<createPullRequestComment(rq.owner, rq.repo, rq.pullRequestNumber.val,
                                    body, rq.githubToken)>>
    ELSE <<>>

\* Mutant of SinkCalls: the two writes are decided independently of each
\* other, the issue on totalIssues and the comment on the PR number.
SinkCallsIndependently(rq, data, body) ==
    (IF data.totalIssues > 0
     THEN <<createGitHubIssue(rq.owner, rq.repo,
                              IssueTitle(rq.branch, data.totalErrors),
                              body, rq.githubToken)>>
     ELSE <<>>)
    \o (IF ~Falsy(rq.pullRequestNumber)
        THEN <<createPullRequestComment(rq.owner, rq.repo, rq.pullRequestNumber.val,
                                        body, rq.githubToken)>>
        ELSE <<>>)

\* Step 9: the GitHub writes the handler sends for this review (none or one).
SinkCalls(rq, data, body) ==
    IF rq.eventType = "push"
    THEN IF data.totalIssues > 0
         THEN <<createGitHubIssue(rq.owner, rq.repo,
                                  IssueTitle(rq.branch, data.totalErrors),
                                  body, rq.githubToken)>>
         ELSE <<>>
    ELSE IF rq.eventType = "pull_request" /\ ~Falsy(rq.pullRequestNumber)
    THEN <<createPullRequestComment(rq.owner, rq.repo, rq.pullRequestNumber.val,
                                    body, rq.githubToken)>>
    ELSE <<>>

\* Step 10: the success response.
SuccessResponse(rq, data) ==
    Json(200, [ success    |-> TRUE,
                message    |-> "Code review completed",
                repository |-> data.repository,
                branch     |-> rq.branch,
                eventType  |-> rq.eventType,
                summary    |-> [ totalFiles         |-> data.totalFiles,
                                 totalIssues        |-> data.totalIssues,
                                 totalErrors        |-> data.totalErrors,
                                 criticalFilesCount |-> Len(data.criticalFiles) ] ])

Join ==
    /\ pc = "fanout"
    /\ AllFulfilled(promise) \/ AnyRejected(promise)
    /\ IF AnyRejected(promise)
       THEN /\ pc' = "done"
            /\ response' = CatchResponse(
                    (CHOOSE p \in {promise[i] : i \in 1..Len(promise)} :
                        IsRejected(p)).reason.message)
            /\ UNCHANGED <<results, review, report, sinks>>
       ELSE \E now \in Times :
            LET rs    == PromiseAll(promise)
                data  == Aggregate(req, Len(files), rs)
                body  == generateReportMarkdown(data, now)
                calls == SinkCalls(req, data, body)
            IN
            /\ results' = rs
            /\ review' = data
            /\ report' = body
            /\ sinks' = sinks \o calls
            /\ IF calls = <<>>
               THEN pc' = "done" /\ response' = SuccessResponse(req, data)
               ELSE pc' = "sink" /\ response' = response
    /\ UNCHANGED <<env, req, files, run, promise, outOfOrder, signal>>

(***************************************************************************)
(* The GitHub write answers: response.ok, or not (the helper throws and    *)
(* the handler's catch block answers).                                     *)
(***************************************************************************)
SinkResponds ==
    /\ pc = "sink"
    /\ pc' = "done"
    /\ \E ok \in BOOLEAN :
         response' =
            IF ok THEN SuccessResponse(req, review)
            ELSE CatchResponse(IF sinks[Len(sinks)].sink = "issue"
                               THEN "Failed to create GitHub issue"
                               ELSE "Failed to create PR comment")
    /\ UNCHANGED <<env, req, files, run, promise, outOfOrder, results, review,
                   report, sinks, signal>>

Next ==
    \/ Receive
    \/ ScanRejects
    \/ ScanResolves
    \/ \E i \in 1..Len(files) : AiSettles(i)
    \/ Join
    \/ SinkResponds

Spec == Init /\ [][Next]_vars

\* The same handler over scans of at most MaxFairFiles files, under a runtime
\* that keeps running it: every agent.generate call settles, the continuation
\* of a settled await runs, and GitHub answers the write request.
NextFair ==
    \/ Receive
    \/ ScanRejects
    \/ ScanResolvesUpTo(MaxFairFiles)
    \/ \E i \in 1..Len(files) : AiSettles(i)
    \/ Join
    \/ SinkResponds

Fairness ==
    /\ \A i \in 1..MaxFairFiles : WF_vars(AiSettles(i))
    /\ WF_vars(Join)
    /\ WF_vars(SinkResponds)

SpecFair == Init /\ [][NextFair]_vars /\ Fairness

(***************************************************************************)
(* Aggregation and composition over long file lists: the handler from the  *)
(* moment every callback of the fan-out has settled.  The file list holds  *)
(* MaxReportFiles - 1 .. MaxReportFiles files of at most two kinds.        *)
(***************************************************************************)
\* A kind of file: its content and what agent.generate did for it.
ReportKinds ==
    { [content |-> "clean",  ai |-> [rejects |-> FALSE, text |-> JsString("LGTM")]],
      [content |-> "todo",   ai |-> [rejects |-> FALSE, text |-> JsString("LGTM")]],
      [content |-> "secret", ai |-> [rejects |-> FALSE, text |-> JsString("LGTM")]],
      [content |-> "secret", ai |-> [rejects |-> TRUE, message |-> "AI request failed"]] }

\* The outcome of the whole callback for one file of the given kind.
SettledOutcome(file, ai) ==
    CallbackOutcome(
        file,
        ResumeWorkflow(
            staticAnalysisStep([code |-> file.content, fileName |-> file.path]).value,
            ai),
        "result")

InitReport ==
    /\ pc = "fanout"
    /\ env = [ GITHUB_TOKEN       |-> JsString("ghp_token"),
               agentRegistered    |-> TRUE,
               workflowRegistered |-> TRUE ]
    /\ req = [ eventType         |-> "push",
               owner             |-> "octo",
               repo              |-> "repo",
               branch            |-> "main",
               pullRequestNumber |-> JsNull,
               githubToken       |-> "ghp_token" ]
    /\ \E n \in (MaxReportFiles - 1)..MaxReportFiles :
       \E kinds \in {K \in SUBSET ReportKinds : Cardinality(K) \in 1..2} :
       \E pick \in [1..n -> kinds] :
         /\ files = [i \in 1..n |->
                       [path |-> PathOf(i), content |-> pick[i].content, size |-> 1]]
         /\ promise = [i \in 1..n |-> SettledOutcome(files[i], pick[i].ai)]
         /\ run = [i \in 1..n |-> Settled]
    /\ outOfOrder = FALSE
    /\ results = <<>>
    /\ review = JsNull
    /\ report = <<>>
    /\ sinks = <<>>
    /\ response = JsNull
    /\ signal = JsNull

NextReport ==
    \/ Join
    \/ SinkResponds

SpecReport == InitReport /\ [][NextReport]_vars

(***************************************************************************)
(* One workflow run, step by step: the fan-out over a single file whose    *)
(* content is a text of up to MaxLines lines.  A line is written as the    *)
(* three parts it is made of (a call on console, an assignment, a line     *)
(* comment), each possibly absent; a text holds one such line at some of   *)
(* its positions and a filler line at the others.                          *)
(***************************************************************************)
\* Longest text, in lines, that the step-by-step model analyses.
MaxLines == 3

NoChars == <<>>

\* object.method(1);
DebugCalls ==
    { [object |-> NoChars, method |-> NoChars],
      [object |-> <<"c", "o", "n", "s", "o", "l", "e">>, method |-> <<"l", "o", "g">>],
      [object |-> <<"c", "o", "n", "s", "o", "l", "e">>, method |-> <<"i", "n", "f", "o">>],
      [object |-> <<"C", "o", "n", "s", "o", "l", "e">>, method |-> <<"L", "o", "g">>],
      [object |-> <<"c", "o", "n", "s", "o", "l", "e">>, method |-> <<"w", "a", "r", "n">>] }

\* ident = literal, or ident=literal when tight.
Assignments ==
    { [ident |-> NoChars, tight |-> FALSE, literal |-> NoChars],
      [ident |-> <<"x">>, tight |-> FALSE, literal |-> <<"\"", "a", "b", "c", "\"">>],
      [ident |-> <<"p", "a", "s", "s", "w", "o", "r", "d">>, tight |-> FALSE, literal |-> <<"\"", "a", "b", "c", "\"">>],
      [ident |-> <<"A", "P", "I", "_", "K", "E", "Y">>, tight |-> TRUE, literal |-> <<"'", "a", "b", "c", "'">>],
      [ident |-> <<"p", "a", "s", "s", "w", "o", "r", "d">>, tight |-> FALSE, literal |-> <<"\"", "\"">>],
      [ident |-> <<"p", "a", "s", "s", "w", "o", "r", "d">>, tight |-> FALSE, literal |-> <<"a", "b", "c">>],
      [ident |-> <<"p", "a", "s", "s", "w", "o", "r", "d", "H", "a", "s", "h">>, tight |-> FALSE, literal |-> <<"\"", "a", "b", "c", "\"">>],
      [ident |-> <<"m", "y", "T", "o", "k", "e", "n">>, tight |-> FALSE, literal |-> <<"\"", "a", "b", "c", "\"">>] }

\* marker, then the words of the comment.
Comments ==
    { [marker |-> NoChars, words |-> NoChars],
      [marker |-> <<"/", "/">>, words |-> <<" ", "T", "O", "D", "O">>],
      [marker |-> <<"/", "/">>, words |-> <<"t", "o", "d", "o">>],
      [marker |-> <<"/", "/">>, words |-> <<" ", "d", "o", "n", "e">>] }

LineShapes == [debug : DebugCalls, assign : Assignments, comment : Comments]

EmptyLine ==
    [ debug   |-> [object |-> NoChars, method |-> NoChars],
      assign  |-> [ident |-> NoChars, tight |-> FALSE, literal |-> NoChars],
      comment |-> [marker |-> NoChars, words |-> NoChars] ]

\* The lines a text holds wherever it does not hold its line under study.
FillerLines ==
    { EmptyLine,
      [EmptyLine EXCEPT !.comment = [marker |-> <<"/", "/">>, words |-> <<" ", "T", "O", "D", "O">>]] }

DebugText(d) ==
    IF d.object = NoChars THEN NoChars
    ELSE d.object \o <<".">> \o d.method \o <<"(", "1", ")", ";">>

AssignText(a) ==
    IF a.ident = NoChars THEN NoChars
    ELSE a.ident \o (IF a.tight THEN <<"=">> ELSE <<" ", "=", " ">>) \o a.literal

CommentText(c) == c.marker \o c.words

\* The parts of a line that are present, separated by one space.
LineText(shape) ==
    LET d == DebugText(shape.debug)
        a == AssignText(shape.assign)
        c == CommentText(shape.comment)
        da == IF d # NoChars /\ a # NoChars THEN d \o <<" ">> \o a ELSE d \o a
    IN IF da # NoChars /\ c # NoChars THEN da \o <<" ">> \o c ELSE da \o c

\* The text of a file: its lines joined by "\n".
RECURSIVE TextOf(_)
TextOf(shapes) ==
    IF shapes = <<>> THEN NoChars
    ELSE IF Len(shapes) = 1 THEN LineText(shapes[1])
    ELSE LineText(shapes[1]) \o <<"\n">> \o TextOf(Tail(shapes))

InitPipeline ==
    /\ pc = "workflow"
    /\ env \in [ GITHUB_TOKEN       : {JsString("ghp_token")},
                 agentRegistered    : BOOLEAN,
                 workflowRegistered : {TRUE} ]
    /\ req = [ eventType         |-> "push",
               owner             |-> "octo",
               repo              |-> "repo",
               branch            |-> "main",
               pullRequestNumber |-> JsNull,
               githubToken       |-> "ghp_token" ]
    /\ \E n \in 1..MaxLines : \E shape \in LineShapes : \E filler \in FillerLines :
       \E at \in SUBSET (1..n) :
         files = << [ path    |-> PathOf(1),
                      content |-> [i \in 1..n |-> IF i \in at THEN shape ELSE filler],
                      size    |-> n ] >>
    /\ run = <<[state |-> "start", steps |-> <<>>, calls |-> <<>>]>>
    /\ promise = <<Pending>>
    /\ outOfOrder = FALSE
    /\ results = <<>>
    /\ review = JsNull
    /\ report = <<>>
    /\ sinks = <<>>
    /\ response = JsNull
    /\ signal = JsNull

\* The output of the step that ran last.
LastOutput == run[1].steps[Len(run[1].steps)].output

\* The run ends: start() settles and the callback's promise with it.
PipelineEnds(state, steps, last, surfaced) ==
    /\ run' = <<[run[1] EXCEPT !.state = state, !.steps = steps]>>
    /\ promise' = <<CallbackOutcome(files[1], last, surfaced)>>

\* workflow.start(): the first step, staticAnalysisStep, runs on the input.
StaticAnalysisRuns ==
    /\ pc = "workflow"
    /\ run[1].state = "start"
    /\ LET input == [code |-> files[1].content, fileName |-> files[1].path]
           out   == staticAnalysisReturn(input, staticAnalyzerTool(TextOf(input.code)))
       IN run' = <<[run[1] EXCEPT
                      !.state = "analyzed",
                      !.steps = Append(@, [ step   |-> "static-analysis",
                                            input  |-> input,
                                            output |-> out ])]>>
    /\ UNCHANGED <<pc, env, req, files, promise, outOfOrder, results, review,
                   report, sinks, response, signal>>

\* aiReviewStep starts on the first step's output: the agent lookup, then the
\* prompt and the call of agent.generate.
AiReviewStarts ==
    /\ pc = "workflow"
    /\ run[1].state = "analyzed"
    /\ LET input  == LastOutput.value
           lookup == aiReviewLookup(env.agentRegistered)
       IN IF lookup.threw
          THEN \E surfaced \in Surfacings :
                  PipelineEnds("failed",
                               Append(run[1].steps, [ step   |-> "ai-review",
                                                      input  |-> input,
                                                      output |-> lookup ]),
                               lookup, surfaced)
          ELSE /\ run' = <<[run[1] EXCEPT
                               !.state = "ai",
                               !.calls = Append(@, aiReviewPrompt(input))]>>
               /\ promise' = promise
    /\ UNCHANGED <<pc, env, req, files, outOfOrder, results, review, report,
                   sinks, response, signal>>

\* agent.generate settles and aiReviewStep returns or throws.
AgentAnswers ==
    /\ pc = "workflow"
    /\ run[1].state = "ai"
    /\ \E aiResponse \in AiResponses :
         LET input == LastOutput.value
             out   == aiReviewStep(input, aiResponse)
             steps == Append(run[1].steps, [ step     |-> "ai-review",
                                             input    |-> input,
                                             response |-> aiResponse,
                                             output   |-> out ])
         IN IF out.threw
            THEN \E surfaced \in Surfacings : PipelineEnds("failed", steps, out, surfaced)
            ELSE /\ run' = <<[run[1] EXCEPT !.state = "reviewed", !.steps = steps]>>
                 /\ promise' = promise
    /\ UNCHANGED <<pc, env, req, files, outOfOrder, results, review, report,
                   sinks, response, signal>>

\* generateReportStep runs on aiReviewStep's output and the run succeeds.
ReportAssembles ==
    /\ pc = "workflow"
    /\ run[1].state = "reviewed"
    /\ LET input == LastOutput.value
           out   == generateReportStep(input)
       IN PipelineEnds("done",
                       Append(run[1].steps, [ step   |-> "generate-report",
                                              input  |-> input,
                                              output |-> out ]),
                       out, "result")
    /\ UNCHANGED <<pc, env, req, files, outOfOrder, results, review, report,
                   sinks, response, signal>>

NextPipeline ==
    \/ StaticAnalysisRuns
    \/ AiReviewStarts
    \/ AgentAnswers
    \/ ReportAssembles

SpecPipeline == InitPipeline /\ [][NextPipeline]_vars

(***************************************************************************)
(* The AbortSignal polyfill: addEventListener and removeEventListener on   *)
(* one signal, then the signal aborts and the runtime calls its onabort.   *)
(* A function is written as what it is: null, the handler the program had  *)
(* assigned to onabort before, or the closure addEventListener assigns,    *)
(* which holds the onabort it replaced.                                    *)
(***************************************************************************)
\* The number of addEventListener and removeEventListener calls on the signal.
MaxListenerCalls == 4

\* The listener functions the program passes.
Listeners == {"listenerA", "listenerB", "listenerC"}

\* The event types it passes.
EventTypes == {"abort", "timeout"}

\* The function a program may have assigned to signal.onabort beforehand.
OwnHandler == [handler |-> "ownOnAbort"]

\* this.onabort = (event) => {...}, closed over originalOnAbort.
OnAbortClosure(originalOnAbort) == [original |-> originalOnAbort]

\* The keys of the signal's Map, in insertion order.
MapKeys(listeners) == {listeners[k] : k \in 1..Len(listeners)}

\* The functions that run, in order, when fn is called with the abort event:
\* the closure calls the onabort it replaced, then every listener in the map.
RECURSIVE CallOnAbort(_, _)
CallOnAbort(fn, currentListeners) ==
    IF fn = JsNull THEN <<>>
    ELSE IF Has(fn, "handler") THEN <<fn.handler>>
    ELSE CallOnAbort(fn.original, currentListeners) \o currentListeners

InitAbort ==
    /\ pc = "signal"
    /\ env = [ GITHUB_TOKEN       |-> JsString("ghp_token"),
               agentRegistered    |-> TRUE,
               workflowRegistered |-> TRUE ]
    /\ req = JsNull
    /\ files = <<>>
    /\ run = <<>>
    /\ promise = <<>>
    /\ outOfOrder = FALSE
    /\ results = <<>>
    /\ review = JsNull
    /\ report = <<>>
    /\ sinks = <<>>
    /\ response = JsNull
    /\ \E own \in {JsNull, OwnHandler} :
         signal = [ own       |-> own,
                    onabort   |-> own,
                    listeners |-> <<>>,
                    calls     |-> 0,
                    aborted   |-> FALSE,
                    invoked   |-> <<>> ]

\* The signal changes and nothing of the webhook does.
SignalBecomes(next) ==
    /\ signal' = next
    /\ UNCHANGED <<pc, env, req, files, run, promise, outOfOrder, results, review,
                   report, sinks, response>>

addEventListener(type, listener) ==
    /\ pc = "signal"
    /\ ~signal.aborted
    /\ signal.calls < MaxListenerCalls
    /\ IF type # "abort" \/ listener \in MapKeys(signal.listeners)
       THEN SignalBecomes([signal EXCEPT !.calls = @ + 1])
       ELSE SignalBecomes([signal EXCEPT
                              !.calls     = @ + 1,
                              !.listeners = Append(@, listener),
                              !.onabort   = OnAbortClosure(@)])

removeEventListener(type, listener) ==
    /\ pc = "signal"
    /\ ~signal.aborted
    /\ signal.calls < MaxListenerCalls
    /\ IF type # "abort" \/ signal.listeners = <<>>
       THEN SignalBecomes([signal EXCEPT !.calls = @ + 1])
       ELSE LET rest == SelectSeq(signal.listeners, LAMBDA l : l # listener) IN
            SignalBecomes([signal EXCEPT
                              !.calls     = @ + 1,
                              !.listeners = rest,
                              !.onabort   = IF rest = <<>> THEN JsNull ELSE @])

\* The signal aborts: the runtime calls signal.onabort, once.
SignalAborts ==
    /\ pc = "signal"
    /\ ~signal.aborted
    /\ SignalBecomes([signal EXCEPT
                          !.aborted = TRUE,
                          !.invoked = CallOnAbort(signal.onabort, signal.listeners)])

NextAbort ==
    \/ \E type \in EventTypes, listener \in Listeners : addEventListener(type, listener)
    \/ \E type \in EventTypes, listener \in Listeners : removeEventListener(type, listener)
    \/ SignalAborts

SpecAbort == InitAbort /\ [][NextAbort]_vars

(***************************************************************************)
(* Properties.  Helpers first: they restate what a claim expects from the  *)
(* handler's inputs and outcomes, without the handler's own operators.     *)
(***************************************************************************)
\* Promise.all has resolved and the handler went on to aggregate.
Joined == review # JsNull

\* The members of a set of positions, ascending.
RECURSIVE Ascending(_)
Ascending(S) ==
    IF S = {} THEN <<>>
    ELSE LET m == CHOOSE x \in S : \A y \in S : x <= y
         IN <<m>> \o Ascending(S \ {m})

\* Positions of the outcomes with success = true.
SuccessfulAt(rs) == {i \in 1..Len(rs) : rs[i].success}

FailedAt(rs) == {i \in 1..Len(rs) : ~rs[i].success}

RECURSIVE IssuesOver(_, _)
IssuesOver(rs, S) ==
    IF S = {} THEN 0
    ELSE LET i == CHOOSE x \in S : TRUE
         IN rs[i].metrics.staticIssues + IssuesOver(rs, S \ {i})

RECURSIVE ErrorsOver(_, _)
ErrorsOver(rs, S) ==
    IF S = {} THEN 0
    ELSE LET i == CHOOSE x \in S : TRUE
         IN rs[i].metrics.staticErrors + ErrorsOver(rs, S \ {i})

\* C1: once the fan-out has been joined, the outcome list is as long as the
\* file list and its i-th entry carries the i-th file's name, whatever the
\* order in which the reviews completed and whichever of them failed.
C1_OutcomesInInputOrder ==
    Joined =>
        /\ Len(results) = Len(files)
        /\ \A i \in 1..Len(files) : results[i].fileName = files[i].path

\* Three files, a later review completed before an earlier one, one failed.
C1_Witness ==
    /\ Joined
    /\ Len(files) >= 3
    /\ outOfOrder
    /\ FailedAt(results) # {}
    /\ SuccessfulAt(results) # {}

\* Everything the review of one file can end with, from that file alone.
OwnOutcomes(file) ==
    {SettledOutcome(file, ai) : ai \in AiResponses}
    \cup {[success |-> FALSE, fileName |-> file.path, error |-> "Agent not found"]}

\* C2: per-file isolation.  No callback promise is ever rejected, so the joint
\* await never throws; the request is answered only after the join; a settled
\* file's outcome is one its own input can produce; and while the fan-out
\* runs every pending review can still succeed with the metrics of its own
\* file, whatever happened to the other files.
C2_PerFileIsolation ==
    /\ \A i \in 1..Len(promise) : ~IsRejected(promise[i])
    /\ (response # JsNull /\ promise # <<>>) => Joined
    /\ \A i \in 1..Len(promise) :
          IsFulfilled(promise[i]) => promise[i] \in OwnOutcomes(files[i])
    /\ pc = "fanout" =>
          \A j \in 1..Len(files) :
             promise[j] = Pending =>
                ENABLED ( /\ AiSettles(j)
                          /\ promise'[j].success
                          /\ promise'[j].metrics =
                                [ staticIssues |-> AnalysisOf[files[j].content].summary.total,
                                  staticErrors |-> AnalysisOf[files[j].content].summary.errors ] )

\* One review failed, another succeeded after it, and the request succeeded.
C2_Witness ==
    /\ pc = "done"
    /\ Joined
    /\ response.body.success
    /\ \E i, j \in 1..Len(results) :
          /\ i < j
          /\ ~results[i].success
          /\ results[j].success
          /\ results[j].metrics.staticIssues > 0

\* C3: totalIssues and totalErrors are the sums of metrics.staticIssues and
\* metrics.staticErrors over exactly the outcomes with success = true.
C3_TotalsOverSuccesses ==
    Joined =>
        /\ review.totalIssues = IssuesOver(results, SuccessfulAt(results))
        /\ review.totalErrors = ErrorsOver(results, SuccessfulAt(results))

\* A failed file whose content holds an error, beside successes with issues.
C3_Witness ==
    /\ Joined
    /\ \E i \in FailedAt(results) : AnalysisOf[files[i].content].summary.errors > 0
    /\ review.totalErrors > 0
    /\ review.totalIssues > review.totalErrors
    /\ Cardinality(SuccessfulAt(results)) >= 2

\* The successful outcomes with errors, by position.
CriticalAt(rs) == {i \in SuccessfulAt(rs) : rs[i].metrics.staticErrors > 0}

\* C4: criticalFiles is the subsequence of the successful outcomes with
\* staticErrors > 0, in input order, each with its file's name and its count.
C4_CriticalFilesExact ==
    Joined =>
        LET at == Ascending(CriticalAt(results)) IN
        /\ Len(review.criticalFiles) = Len(at)
        /\ \A k \in 1..Len(at) :
              review.criticalFiles[k] =
                 [ fileName |-> files[at[k]].path,
                   errors   |-> results[at[k]].metrics.staticErrors ]

\* Two critical files around a file left out of the list.
C4_Witness ==
    /\ Joined
    /\ Len(review.criticalFiles) = 2
    /\ \E i \in 1..Len(results) :
          /\ i \notin CriticalAt(results)
          /\ \E a, b \in CriticalAt(results) : a < i /\ i < b

SuccessShape(o) ==
    /\ DOMAIN o = {"success", "fileName", "report", "metrics"}
    /\ o.success

FailureShape(o) ==
    /\ DOMAIN o = {"success", "fileName", "error"}
    /\ ~o.success
    /\ o.error # ""

\* C5: every outcome is a success with report and metrics and no error, or a
\* failure with an error message and neither report nor metrics; a missing
\* agent and a rejected generate() give a failure.
C5_OutcomeShapes ==
    /\ \A i \in 1..Len(promise) :
          promise[i] # Pending =>
             /\ IsFulfilled(promise[i])
             /\ SuccessShape(promise[i]) \/ FailureShape(promise[i])
             /\ ~env.agentRegistered =>
                   FailureShape(promise[i]) /\ promise[i].error = "Agent not found"
    /\ \A i \in 1..Len(files) : \A ai \in AiResponses : \A surfaced \in Surfacings :
          ai.rejects =>
             LET o == CallbackOutcome(
                         files[i],
                         ResumeWorkflow(
                            staticAnalysisStep([ code     |-> files[i].content,
                                                 fileName |-> files[i].path ]).value,
                            ai),
                         surfaced)
             IN FailureShape(o) /\ o.error = ai.message

\* A fan-out that ended with a success and a failure of a file with findings.
C5_Witness ==
    /\ Joined
    /\ \E i \in FailedAt(results) :
          /\ AnalysisOf[files[i].content].summary.total > 0
          /\ results[i].error = "AI request failed"
    /\ SuccessfulAt(results) # {}

\* C6: the report is composed, a sink is invoked and the response is sent only
\* once the review of every file has settled.
C6_NothingBeforeAllSettled ==
    (report # <<>> \/ sinks # <<>> \/ response # JsNull \/ results # <<>> \/ Joined) =>
        /\ \A i \in 1..Len(promise) : IsFulfilled(promise[i])
        /\ \/ Len(promise) = Len(files)
           \/ ~env.workflowRegistered /\ promise = <<>> /\ ~Joined

\* The sink request is in flight after three reviews that completed out of order.
C6_Witness ==
    /\ pc = "sink"
    /\ report # <<>>
    /\ sinks # <<>>
    /\ Len(files) >= 3
    /\ outOfOrder

IssueCalls == {k \in 1..Len(sinks) : sinks[k].sink = "issue"}

CommentCalls == {k \in 1..Len(sinks) : sinks[k].sink = "comment"}

\* C7: an issue is created only for a push with totalIssues > 0, and then
\* exactly once, titled with the branch and totalErrors and carrying the
\* report; a push with totalIssues = 0 creates none and answers success.
C7_IssueOnlyForPushWithIssues ==
    /\ \A k \in IssueCalls :
          /\ Joined
          /\ req.eventType = "push"
          /\ review.totalIssues > 0
          /\ sinks[k].title = [branch |-> req.branch, errors |-> review.totalErrors]
          /\ sinks[k].body = report
    /\ (Joined /\ req.eventType = "push" /\ review.totalIssues > 0) =>
          Cardinality(IssueCalls) = 1 /\ Len(sinks) = 1
    /\ (Joined /\ req.eventType = "push" /\ review.totalIssues = 0) =>
          /\ sinks = <<>>
          /\ pc = "done"
          /\ response.status = 200
          /\ response.body.success

\* A push to dev whose files hold findings but no error: the issue was created.
C7_Witness ==
    /\ pc = "done"
    /\ Joined
    /\ req.eventType = "push"
    /\ req.branch = "dev"
    /\ review.totalIssues > 0
    /\ review.totalErrors = 0
    /\ IssueCalls # {}
    /\ response.body.success

\* C8: for a pull_request event with a PR number the comment carrying the
\* report is posted once the review completes, whatever totalIssues is.
C8_CommentForEveryPullRequest ==
    (Joined /\ req.eventType = "pull_request" /\ ~Falsy(req.pullRequestNumber)) =>
        /\ Len(sinks) = 1
        /\ sinks[1].sink = "comment"
        /\ sinks[1].url.pullNumber = req.pullRequestNumber.val
        /\ sinks[1].body = report

\* A pull request whose files hold no finding: the comment was posted.
C8_Witness ==
    /\ Joined
    /\ req.eventType = "pull_request"
    /\ files # <<>>
    /\ review.totalIssues = 0
    /\ CommentCalls # {}

KindAt(doc, kind) == {k \in 1..Len(doc) : doc[k].kind = kind}

\* C9: the report has the priority section exactly when totalErrors > 0, and
\* then the heading is followed by one bullet per criticalFiles entry, in
\* order, with the entry's file name and error count; no bullet elsewhere.
C9_PrioritySection ==
    Joined =>
        LET heads   == KindAt(report, "priority-heading")
            bullets == KindAt(report, "priority-bullet")
            cf      == review.criticalFiles
        IN
        /\ (heads # {}) <=> (review.totalErrors > 0)
        /\ Cardinality(heads) <= 1
        /\ heads = {} => bullets = {}
        /\ \A h \in heads :
              /\ bullets = (h + 1)..(h + Len(cf))
              /\ \A k \in 1..Len(cf) :
                    report[h + k] = [ kind     |-> "priority-bullet",
                                      fileName |-> cf[k].fileName,
                                      errors   |-> cf[k].errors ]

\* Several critical files among files that are not critical.
C9_Witness ==
    /\ Joined
    /\ review.totalErrors > 0
    /\ Len(review.criticalFiles) >= 3
    /\ Len(review.criticalFiles) < Len(results)
    /\ Cardinality(KindAt(report, "priority-bullet")) = Len(review.criticalFiles)

\* The successful outcomes with staticIssues > 0, by position.
QualifyingAt(rs) == {i \in SuccessfulAt(rs) : rs[i].metrics.staticIssues > 0}

\* C10: the file blocks of the detailed list are the first min(10, q) of the q
\* successful outcomes with staticIssues > 0, in outcome order; there are never
\* more than 10; the note of q - 10 omitted files is there exactly when q > 10.
C10_TopTenFiles ==
    Joined =>
        LET at     == Ascending(QualifyingAt(results))
            q      == Len(at)
            shown  == IF q < 10 THEN q ELSE 10
            blocks == SelectSeq(report, LAMBDA piece : piece.kind = "file-block")
            notes  == KindAt(report, "files-omitted")
        IN
        /\ Len(blocks) = shown
        /\ Len(blocks) <= 10
        /\ \A k \in 1..shown :
              /\ blocks[k].fileName = files[at[k]].path
              /\ blocks[k].staticIssues = results[at[k]].metrics.staticIssues
              /\ blocks[k].staticErrors = results[at[k]].metrics.staticErrors
        /\ (notes # {}) <=> (q > 10)
        /\ Cardinality(notes) <= 1
        /\ \A n \in notes :
              /\ report[n].count = q - 10
              /\ \A b \in KindAt(report, "file-block") : b < n

\* Twelve files, eleven with issues and one failed among the first ten.
C10_Witness ==
    /\ Joined
    /\ Len(results) = 12
    /\ Cardinality(QualifyingAt(results)) = 11
    /\ \E i \in FailedAt(results) : i < 10
    /\ Cardinality(KindAt(report, "file-block")) = 10
    /\ \E n \in KindAt(report, "files-omitted") : report[n].count = 1

\* The finding lines a file block should hold for a file with these findings:
\* the first five, each with the marker of its severity.
ExpectedFindingLines(issues) ==
    [n \in 1..(IF Len(issues) < 5 THEN Len(issues) ELSE 5) |->
        [ kind    |-> "finding",
          emoji   |-> CASE issues[n].severity = "error" -> "red"
                        [] issues[n].severity = "warning" -> "yellow"
                        [] OTHER -> "info",
          line    |-> issues[n].line,
          message |-> issues[n].message,
          rule    |-> issues[n].rule ]]

\* The position in the file list of the file a block is about.
FileOfBlock(block) == CHOOSE i \in 1..Len(files) : files[i].path = block.fileName

\* C11: in the composed report every file block is followed by the first
\* min(5, k) of the k findings the static analysis of that file produced, in
\* order and with the severity marker, then by the note of k - 5 omitted
\* findings exactly when k > 5, and by no further finding line.
C11_FileBlockRendersFindings ==
    Joined =>
        \A b \in KindAt(report, "file-block") :
            LET issues == AnalysisOf[files[FileOfBlock(report[b])].content].issues
                lines  == ExpectedFindingLines(issues)
                after  == b + Len(lines) + 1
            IN
            /\ b + Len(lines) <= Len(report)
            /\ \A n \in 1..Len(lines) : report[b + n] = lines[n]
            /\ after <= Len(report) => report[after].kind # "finding"
            /\ (Len(issues) > 5) <=>
                  (after <= Len(report) /\ report[after].kind = "findings-omitted")
            /\ (after <= Len(report) /\ report[after].kind = "findings-omitted") =>
                  report[after].count = Len(issues) - 5

C13_CompositionDeterministic ==
    Joined => \A now \in Times : generateReportMarkdown(review, now) = report

(***************************************************************************)
(* Properties of one workflow run (SpecPipeline).                          *)
(***************************************************************************)
\* The analyzer has just returned for the text under study.
Analyzed == pc = "workflow" /\ run[1].state = "analyzed"

\* The text under study, as its lines, and what the analyzer returned for it.
StudiedLines == files[1].content

StudiedResult == run[1].steps[1].output.value.staticResult

\* The findings of the given severity, counted one by one.
RECURSIVE Tally(_, _)
Tally(issues, sev) ==
    IF issues = <<>> THEN 0
    ELSE (IF Head(issues).severity = sev THEN 1 ELSE 0) + Tally(Tail(issues), sev)

\* C14: the analyzer's summary counts its findings: total is their number,
\* errors and warnings the numbers of those of that severity, and
\* errors + warnings <= total, the difference being the info findings.
C14_SummaryCountsFindings ==
    Analyzed =>
        LET issues  == StudiedResult.issues
            summary == StudiedResult.summary
        IN
        /\ summary.total = Len(issues)
        /\ summary.errors = Tally(issues, "error")
        /\ summary.warnings = Tally(issues, "warning")
        /\ summary.errors + summary.warnings <= summary.total
        /\ summary.total - summary.errors - summary.warnings = Tally(issues, "info")

\* A text of several lines with findings of each of the three severities.
C14_Witness ==
    /\ Analyzed
    /\ Len(StudiedLines) >= 2
    /\ StudiedResult.summary.errors >= 1
    /\ StudiedResult.summary.warnings >= 1
    /\ StudiedResult.summary.total > StudiedResult.summary.errors + StudiedResult.summary.warnings

\* A finding without its line number.
Unplaced(f) == [rule |-> f.rule, severity |-> f.severity, message |-> f.message]

\* What the analyzer finds in a text made of this one line, without line numbers.
FoundAlone(shape) ==
    LET issues == staticAnalyzerTool(LineText(shape)).issues
    IN [k \in 1..Len(issues) |-> Unplaced(issues[k])]

\* The findings reported for line i, in the order reported, without line numbers.
FoundAt(issues, i) ==
    LET there == SelectSeq(issues, LAMBDA f : f.line = i)
    IN [k \in 1..Len(there) |-> Unplaced(there[k])]

RuleOrder == <<"no-console", "no-hardcoded-secrets", "todo-comment">>

RuleSeverity ==
    [ rule \in {"no-console", "no-hardcoded-secrets", "todo-comment"} |->
        CASE rule = "no-console" -> "warning"
          [] rule = "no-hardcoded-secrets" -> "error"
          [] rule = "todo-comment" -> "info" ]

RankOf(rule) == CHOOSE k \in 1..3 : RuleOrder[k] = rule

\* C15: the rules are independent per line.  What is found in a line is what
\* is found in its console call alone, then in its assignment alone, then in
\* its comment alone: no part hides or adds a finding of another.  A line has
\* at most three findings, at most one per rule, in the order no-console,
\* no-hardcoded-secrets, todo-comment, each with its rule's severity.
C15_RulesIndependentPerLine ==
    Analyzed =>
        \A i \in 1..Len(StudiedLines) :
            LET shape == StudiedLines[i]
                found == FoundAt(StudiedResult.issues, i)
            IN
            /\ found = FoundAlone([EmptyLine EXCEPT !.debug = shape.debug])
                       \o FoundAlone([EmptyLine EXCEPT !.assign = shape.assign])
                       \o FoundAlone([EmptyLine EXCEPT !.comment = shape.comment])
            /\ Len(found) <= 3
            /\ \A k \in 1..Len(found) :
                  /\ found[k].rule \in DOMAIN RuleSeverity
                  /\ found[k].severity = RuleSeverity[found[k].rule]
            /\ \A k, m \in 1..Len(found) :
                  k < m => RankOf(found[k].rule) < RankOf(found[m].rule)

\* A line that triggers all three rules, and one that triggers the first two.
C15_Witness ==
    /\ Analyzed
    /\ \E i \in 1..Len(StudiedLines) :
          Len(FoundAt(StudiedResult.issues, i)) = 3
    /\ \E shape \in LineShapes :
          /\ Len(FoundAlone(shape)) = 2
          /\ FoundAlone(shape)[1].rule = "no-console"
          /\ FoundAlone(shape)[2].rule = "no-hardcoded-secrets"

\* C16: the findings come with non-decreasing line numbers, each between 1
\* and the number of lines of the text, and the findings reported for line i
\* are those of the i-th line of the text.
C16_LineNumbers ==
    Analyzed =>
        LET issues == StudiedResult.issues
            n      == Len(StudiedLines)
        IN
        /\ \A k \in 1..Len(issues) : issues[k].line \in 1..n
        /\ \A k \in 1..(Len(issues) - 1) : issues[k].line <= issues[k + 1].line
        /\ \A i \in 1..n : FoundAt(issues, i) = FoundAlone(StudiedLines[i])

\* Findings on the first and the last of three lines, none on the second.
C16_Witness ==
    /\ Analyzed
    /\ Len(StudiedLines) = 3
    /\ FoundAt(StudiedResult.issues, 1) # <<>>
    /\ FoundAt(StudiedResult.issues, 2) = <<>>
    /\ Len(FoundAt(StudiedResult.issues, 3)) >= 2

\* One of the keywords occurs somewhere in the identifier, in any letter case.
IdentContainsKeyword(ident) ==
    \E p \in 1..Len(ident) : \E kw \in SecretKeywords : MatchAtCI(ident, p, kw)

\* The identifier ends with one of the keywords, in any letter case.
IdentEndsWithKeyword(ident) ==
    \E kw \in SecretKeywords :
        /\ Len(kw) <= Len(ident)
        /\ MatchAtCI(ident, Len(ident) - Len(kw) + 1, kw)

\* A literal in quotes with at least one character between them.
QuotedNonEmpty(literal) ==
    /\ Len(literal) >= 3
    /\ literal[1] \in Quotes
    /\ literal[Len(literal)] \in Quotes
    /\ \A j \in 2..(Len(literal) - 1) : literal[j] \notin Quotes

SecretFindingsAt(issues, i) ==
    SelectSeq(issues, LAMBDA f : f.line = i /\ f.rule = "no-hardcoded-secrets")

SecretFinding(i) ==
    [ line     |-> i,
      severity |-> "error",
      message  |-> "Hardcoded secret detected",
      rule     |-> "no-hardcoded-secrets" ]

\* C17 as stated: a line gets a no-hardcoded-secrets finding exactly when it
\* assigns a non-empty quoted literal to an identifier that contains one of
\* the keywords, and then exactly one, an error at that line.
C17_SecretOnIdentifierContainingKeyword ==
    Analyzed =>
        \A i \in 1..Len(StudiedLines) :
            LET a     == StudiedLines[i].assign
                found == SecretFindingsAt(StudiedResult.issues, i)
            IN found = IF IdentContainsKeyword(a.ident) /\ QuotedNonEmpty(a.literal)
                       THEN <<SecretFinding(i)>>
                       ELSE <<>>

\* C17 as amended: a line gets a no-hardcoded-secrets finding exactly when
\* the keyword is directly followed, whitespace aside, by '=' and a non-empty
\* quoted literal, that is when the assigned identifier ends with the
\* keyword; an empty or unquoted literal gives none; a matching line gets
\* exactly one, an error at that line.
C17_SecretOnKeywordBeforeEquals ==
    Analyzed =>
        \A i \in 1..Len(StudiedLines) :
            LET a     == StudiedLines[i].assign
                found == SecretFindingsAt(StudiedResult.issues, i)
            IN found = IF IdentEndsWithKeyword(a.ident) /\ QuotedNonEmpty(a.literal)
                       THEN <<SecretFinding(i)>>
                       ELSE <<>>

\* The keyword at the end of a longer identifier, after a console call, on
\* two of three lines: one error finding on each of the two.
C17_Witness ==
    /\ Analyzed
    /\ Len(StudiedLines) = 3
    /\ \E i, j \in 1..3 :
          /\ i < j
          /\ \A k \in {i, j} :
                /\ StudiedLines[k].debug.object # NoChars
                /\ IdentEndsWithKeyword(StudiedLines[k].assign.ident)
                /\ ~(\E kw \in SecretKeywords : StudiedLines[k].assign.ident = kw)
                /\ SecretFindingsAt(StudiedResult.issues, k) = <<SecretFinding(k)>>
    /\ StudiedResult.summary.errors = 2

\* The text with every upper-case letter replaced by its lower-case form.
LowerText(text) == [k \in 1..Len(text) |-> Lower(text[k])]

ExceptConsole(issues) == SelectSeq(issues, LAMBDA f : f.rule # "no-console")

ConsoleFindingsAt(issues, i) ==
    SelectSeq(issues, LAMBDA f : f.line = i /\ f.rule = "no-console")

\* C18 as stated: all three triggers ignore letter case, so the findings of a
\* text are those of the same text in lower case.
C18_AllRulesIgnoreCase ==
    Analyzed =>
        StudiedResult.issues = staticAnalyzerTool(LowerText(TextOf(StudiedLines))).issues

\* C18 as amended: the no-hardcoded-secrets and todo-comment triggers ignore
\* letter case (their findings are those of the text in lower case); the
\* no-console trigger does not: it fires exactly on console.log,
\* console.debug and console.info written in lower case.
C18_SecretAndTodoIgnoreCase ==
    Analyzed =>
        /\ ExceptConsole(StudiedResult.issues) =
              ExceptConsole(staticAnalyzerTool(LowerText(TextOf(StudiedLines))).issues)
        /\ \A i \in 1..Len(StudiedLines) :
              LET d == StudiedLines[i].debug IN
              (ConsoleFindingsAt(StudiedResult.issues, i) # <<>>)
                 <=> (d.object \o <<".">> = ConsoleDot /\ d.method \in ConsoleMethods)

\* Console.Log, API_KEY and //todo on one line: the secret and the TODO are
\* found, the call is not.
C18_Witness ==
    /\ Analyzed
    /\ \E i \in 1..Len(StudiedLines) :
          /\ LowerText(StudiedLines[i].debug.object) # StudiedLines[i].debug.object
          /\ LowerText(StudiedLines[i].assign.ident) # StudiedLines[i].assign.ident
          /\ LowerText(StudiedLines[i].comment.words) = StudiedLines[i].comment.words
          /\ FoundAt(StudiedResult.issues, i) =
                << [ rule |-> "no-hardcoded-secrets", severity |-> "error",
                     message |-> "Hardcoded secret detected" ],
                   [ rule |-> "todo-comment", severity |-> "info",
                     message |-> "TODO comment found" ] >>

StageNames == <<"static-analysis", "ai-review", "generate-report">>

\* C19: the stages of one file's review run in the order static analysis, AI
\* review, report assembly, each at most once and all three exactly once in
\* a run that succeeds; agent.generate is called at most once and only after
\* the static analysis returned, with a prompt built from that file's name
\* and code and the static result; the AI stage's input is exactly the code,
\* the file name and the static result stage A returned; report assembly
\* starts only on what the AI stage returned, and never after it raised.
C19_StagesInOrder ==
    pc = "workflow" =>
        LET steps == run[1].steps
            calls == run[1].calls
        IN
        /\ Len(steps) <= 3
        /\ \A k \in 1..Len(steps) : steps[k].step = StageNames[k]
        /\ \A k \in 1..(Len(steps) - 1) : ~steps[k].output.threw
        /\ Len(steps) >= 1 =>
              steps[1].input = [code |-> files[1].content, fileName |-> files[1].path]
        /\ Len(calls) <= 1
        /\ calls # <<>> =>
              /\ Len(steps) >= 1
              /\ calls[1] =
                    [ fileName |-> files[1].path,
                      code     |-> files[1].content,
                      total    |-> steps[1].output.value.staticResult.summary.total,
                      issues   |-> steps[1].output.value.staticResult.issues ]
        /\ Len(steps) >= 2 =>
              /\ steps[2].input =
                    [ code         |-> files[1].content,
                      fileName     |-> files[1].path,
                      staticResult |-> steps[1].output.value.staticResult ]
              /\ Has(steps[2], "response") <=> calls # <<>>
        /\ Len(steps) = 3 =>
              /\ Has(steps[2], "response")
              /\ steps[3].input = steps[2].output.value
              /\ steps[3].input.staticResult = steps[1].output.value.staticResult
        /\ run[1].state = "done" <=> (Len(steps) = 3 /\ promise[1] # Pending)
        /\ run[1].state = "done" => promise[1].success
        /\ run[1].state = "failed" =>
              /\ Len(steps) = 2
              /\ steps[2].output.threw
              /\ ~promise[1].success

\* A run that went through the three stages for a file with findings.
C19_Witness ==
    /\ pc = "workflow"
    /\ run[1].state = "done"
    /\ Len(files[1].content) >= 2
    /\ Len(run[1].steps) = 3
    /\ Len(run[1].calls) = 1
    /\ run[1].steps[1].output.value.staticResult.summary.total >= 2
    /\ promise[1].metrics.staticIssues >= 2

\* The AI result text is empty, null or undefined.
NoText(text) ==
    \/ text.type = "null"
    \/ text.type = "undefined"
    \/ (text.type = "string" /\ text.val = "")

\* C20: when agent.generate resolves, the review text the AI stage hands to
\* report assembly is the AI's text unchanged if that text is non-empty and
\* the literal 'No review generated' exactly when it is empty, null or
\* undefined; the assembled report carries that text, and an empty AI result
\* never makes the review fail.
C20_ReviewTextFallback ==
    (pc = "workflow" /\ Len(run[1].steps) >= 2 /\ Has(run[1].steps[2], "response")) =>
        LET ai   == run[1].steps[2]
            text == ai.response.text
        IN
        ~ai.response.rejects =>
            /\ ~ai.output.threw
            /\ run[1].state # "failed"
            /\ ~NoText(text) => ai.output.value.aiReview = text.val
            /\ NoText(text) <=> ai.output.value.aiReview = "No review generated"
            /\ Len(run[1].steps) = 3 =>
                  /\ run[1].steps[3].input.aiReview = ai.output.value.aiReview
                  /\ promise[1].success
                  /\ promise[1].report.aiReview = ai.output.value.aiReview

\* agent.generate resolved with an empty text and the review succeeded with
\* the fallback text in its report.
C20_Witness ==
    /\ pc = "workflow"
    /\ run[1].state = "done"
    /\ run[1].steps[2].response.text = JsString("")
    /\ promise[1].success
    /\ promise[1].report.aiReview = "No review generated"

\* C21: a successful outcome's metrics.staticIssues is the total of its file's
\* static result and metrics.staticErrors its error count, so staticErrors
\* never exceeds staticIssues, and after the join totalErrors never exceeds
\* totalIssues.
C21_MetricsFromSummary ==
    /\ \A i \in 1..Len(promise) :
          (IsFulfilled(promise[i]) /\ promise[i].success) =>
             LET summary == AnalysisOf[files[i].content].summary IN
             /\ promise[i].metrics.staticIssues = summary.total
             /\ promise[i].metrics.staticErrors = summary.errors
             /\ promise[i].metrics.staticErrors <= promise[i].metrics.staticIssues
    /\ Joined => review.totalErrors <= review.totalIssues

\* Joined reviews of a file with an error and of a file with a finding that is
\* no error: the totals differ and neither is zero.
C21_Witness ==
    /\ Joined
    /\ \E i, j \in SuccessfulAt(results) :
          /\ results[i].metrics.staticErrors > 0
          /\ results[j].metrics.staticIssues > results[j].metrics.staticErrors
    /\ 0 < review.totalErrors
    /\ review.totalErrors < review.totalIssues

\* The body of a failed request: success = false and the error's message.
ErrorBody(body) ==
    /\ DOMAIN body = {"success", "error"}
    /\ ~body.success
    /\ Len(body.error) > 0

\* The body of a completed review: nothing in it depends on a file's failure.
ReviewBody(body) ==
    /\ DOMAIN body =
          {"success", "message", "repository", "branch", "eventType", "summary"}
    /\ body.success
    /\ body.summary =
          [ totalFiles         |-> Len(files),
            totalIssues        |-> IssuesOver(results, SuccessfulAt(results)),
            totalErrors        |-> ErrorsOver(results, SuccessfulAt(results)),
            criticalFilesCount |-> Cardinality(CriticalAt(results)) ]

\* C22: a request that fails (no token, scanner or workflow lookup failure,
\* failed GitHub write) is answered with success = false and an error message;
\* a request answered before the fan-out has reviewed no file and called no
\* sink; without a token nothing is scanned; failed file reviews alone leave
\* the response at success = true and do not show in its payload.
C22_RequestLevelFailures ==
    /\ (response # JsNull /\ response.status # 200) => ErrorBody(response.body)
    /\ (response # JsNull /\ ~Joined) =>
          /\ ~response.body.success
          /\ run = <<>> /\ promise = <<>> /\ report = <<>> /\ sinks = <<>>
    /\ Falsy(env.GITHUB_TOKEN) => req = JsNull /\ files = <<>> /\ pc \in {"idle", "done"}
    /\ (pc = "done" /\ req # JsNull /\ ~env.workflowRegistered) =>
          response.status = 500 /\ ErrorBody(response.body)
    /\ (pc = "done" /\ req # JsNull /\ ~Joined) =>
          response.status = 500 /\ ErrorBody(response.body)
    /\ (pc = "done" /\ Joined) =>
          \/ response.status = 200 /\ ReviewBody(response.body)
          \/ sinks # <<>> /\ response.status = 500 /\ ErrorBody(response.body)
    /\ (pc = "sink" /\ Joined) =>
          ENABLED (SinkResponds /\ response'.status = 200 /\ response'.body.success)

\* The scan returned files and the workflow was not found: nothing was reviewed.
C22_Witness ==
    /\ pc = "done"
    /\ ~env.workflowRegistered
    /\ Len(files) >= 2
    /\ response = Json(500, [success |-> FALSE, error |-> "Workflow not found"])
    /\ promise = <<>>
    /\ sinks = <<>>

\* C23: a request whose scan retrieved no file is not answered as a successful
\* review: it gets success = false, and no report is composed or sent for it.
C23_EmptyFileListIsError ==
    (pc = "done" /\ req # JsNull /\ files = <<>>) =>
        /\ ~response.body.success
        /\ response.status # 200
        /\ ~Joined
        /\ sinks = <<>>

\* The names of the files whose review failed.
FailedNames == {files[i].path : i \in FailedAt(results)}

\* The file names the report mentions, in its bullets and its file blocks.
NamesInReport ==
    {report[k].fileName :
        k \in {j \in 1..Len(report) : report[j].kind \in {"priority-bullet", "file-block"}}}

\* C24: the composer is handed the successful outcomes only and the report
\* names no file whose review failed, while the number of scanned files in its
\* summary counts every file of the scan, the failed ones too.
C24_FailedFilesNotInReport ==
    Joined =>
        /\ Len(review.results) = Cardinality(SuccessfulAt(results))
        /\ \A k \in 1..Len(review.results) : review.results[k].success
        /\ NamesInReport \cap FailedNames = {}
        /\ \A k \in 1..Len(review.criticalFiles) :
              review.criticalFiles[k].fileName \notin FailedNames
        /\ \A k \in 1..Len(report) :
              report[k].kind = "summary" => report[k].totalFiles = Len(files)
        /\ review.totalFiles = Len(files)

\* Three files scanned: the review of one with an error failed, another with
\* an error is named in the priority list and in a file block.
C24_Witness ==
    /\ Joined
    /\ Len(files) = 3
    /\ \E i \in FailedAt(results) : AnalysisOf[files[i].content].summary.errors > 0
    /\ \E k, m \in 1..Len(report) :
          /\ report[k].kind = "priority-bullet"
          /\ report[m].kind = "file-block"
          /\ report[m].fileName = report[k].fileName

\* C25: the status of the response follows the API document: 200 exactly when
\* the body says success = true, 400 or 500 otherwise; no response has status
\* 200 with success = false.
C25_StatusFollowsApiDocument ==
    response # JsNull =>
        /\ response.status \in {200, 400, 500}
        /\ response.status = 200 <=> response.body.success

\* Whether `part` occurs in `text`.
Contains(text, part) ==
    \E i \in 1..(Len(text) - Len(part) + 1) : SubSeq(text, i, i + Len(part) - 1) = part

\* C26: the GitHub token is in no text of the HTTP response, whichever way
\* the request ended, a failed request for the repository tree included.
C26_TokenNotInResponse ==
    (response # JsNull /\ ~Falsy(env.GITHUB_TOKEN)) =>
        \A field \in DOMAIN response.body \cap {"error", "message"} :
            ~Contains(response.body[field], env.GITHUB_TOKEN.val)

\* How many times fn ran when the signal aborted.
Invocations(fn) ==
    Cardinality({k \in 1..Len(signal.invoked) : signal.invoked[k] = fn})

\* C27: when the signal aborts after any sequence of addEventListener and
\* removeEventListener calls, every listener registered at that moment runs
\* exactly once and no other listener runs, so n registered listeners make
\* exactly n invocations.
C27_EachListenerOnce ==
    signal.aborted =>
        /\ \A l \in Listeners :
              Invocations(l) = IF l \in MapKeys(signal.listeners) THEN 1 ELSE 0
        /\ Len(SelectSeq(signal.invoked, LAMBDA fn : fn \in Listeners))
              = Len(signal.listeners)

\* C28: a handler assigned to signal.onabort before the polyfill was used
\* still runs exactly once when the signal aborts, after any sequence of
\* addEventListener and removeEventListener calls, the removal of the last
\* registered listener included.
C28_OwnHandlerPreserved ==
    (signal.aborted /\ signal.own # JsNull) => Invocations(signal.own.handler) = 1

\* C29: a request makes at most one GitHub write: an issue only for a push,
\* a comment only for a pull_request, never both and neither twice; a request
\* whose event type is not supported starts no scan and makes no write.
C29_AtMostOneWrite ==
    /\ Len(sinks) <= 1
    /\ IssueCalls # {} => req.eventType = "push" /\ CommentCalls = {}
    /\ CommentCalls # {} => req.eventType = "pull_request" /\ IssueCalls = {}
    /\ req # JsNull => req.eventType \in {"push", "pull_request"}
    /\ req = JsNull =>
          /\ pc \in {"idle", "done"}
          /\ files = <<>> /\ run = <<>> /\ promise = <<>> /\ sinks = <<>>
    /\ (response # JsNull /\ "message" \in DOMAIN response.body /\ ~response.body.success) =>
          req = JsNull

\* A pull request to dev whose files hold errors: the comment was posted, no
\* issue was created, and the request was answered.
C29_Witness ==
    /\ pc = "done"
    /\ Joined
    /\ req.eventType = "pull_request"
    /\ req.branch = "dev"
    /\ review.totalErrors > 0
    /\ Len(sinks) = 1
    /\ CommentCalls = {1}
    /\ response.status = 200

\* Some file's review has not settled.
SomePending == \E i \in 1..Len(promise) : promise[i] = Pending

====
